---- MODULE Spec2Model ----
(***************************************************************************)
(* Model of app/commons/entities.py (mailpy-monitor): the Group gate, the   *)
(* Entry alarm state machine (check_alarms / handle_condition /            *)
(* _find_next_level) and the hand-off into the bounded sms_queue, with      *)
(* several callback threads evaluating Entries concurrently.               *)
(*                                                                         *)
(* Sample values, thresholds and times are floats in the source; only      *)
(* their order is ever used, so they are modelled as integers.             *)
(***************************************************************************)
EXTENDS Integers, Sequences, FiniteSets, TLC

(* ------------------------------ bounds -------------------------------- *)
\* Largest value of the wall clock time.time() explored.
MaxTime == 3
\* Capacity of the bounded multiprocessing.Queue handed to the entries.
QueueMax == 1
(* --------------------------- configuration ---------------------------- *)
Threads == {"t1", "t2"}
Entries == {"pv1", "pv2"}
\* Sample values pushed by the telemetry source: below, on and above every
\* threshold configured below.
Samples == 0 .. 3

OutOfRange     == "outofrange"
SuperiorThan   == "superiorthan"
InferiorThan   == "inferiorthan"
IncreasingStep == "increasingstep"
\* The four condition names Entry.__init__ accepts.
Condition == {OutOfRange, SuperiorThan, InferiorThan, IncreasingStep}
\* An entry of the configuration that was not constructed.
NotCreated == "notcreated"

\* email_timeout of every entry (seconds).
email_timeout == 2
\* alarm_values: "1:2" for out of range, "2" for superior than, "1" for
\* inferior than, "1:2:3" for increasing step.
alarm_min == 1
alarm_max == 2
step_values == <<1, 2, 3>>
min_level == 0
max_level == Len(step_values)

\* Attributes an Entry instance has after __init__: alarm_min is only
\* assigned by _init_out_of_range and _init_inferior_than, alarm_max only by
\* _init_out_of_range and _init_superior_than.
HasAlarmMin(k) == k \in {OutOfRange, InferiorThan}
HasAlarmMax(k) == k \in {OutOfRange, SuperiorThan}

NoThread == "none"

VARIABLES
    now,              \* time.time()
    enabled,          \* Group._enabled of the group shared by the entries
    condition,        \* Entry.condition, fixed at construction
    last_event_time,  \* Entry.last_event_time
    step_level,       \* Entry.step_level
    lock,             \* Entry.lock: the thread holding it, or NoThread
    sms_queue,        \* the shared bounded queue of events
    pc,               \* where each callback thread is in check_alarms
    self,             \* the Entry a thread is evaluating
    value,            \* kwargs["value"] of the call
    timestamp,        \* local variable timestamp of the call
    pv,               \* Entry._pv: a DummyPV, or an epics.PV and its connected flag
    construction      \* the last Entry(...) call made by the loader and how it ended

vars == <<now, enabled, condition, last_event_time, step_level, lock,
          sms_queue, pc, self, value, timestamp, pv, construction>>

\* Values of Entry._pv: not assigned, a DummyPV (line 109), or an epics.PV
\* (line 106) that reports connected or not.
NoPV == "none"
DummyPV == "dummy"
Connected == "connected"
Disconnected == "disconnected"
\* The epics.PV objects: check_alarms is registered as their callback (line 107).
RealPV == {Connected, Disconnected}

\* Ways a check_alarms call can end (pc of a thread that is not in a call).
Returned == {"idle", "skipped", "no_event", "enqueued", "dropped",
             "IndexError", "AttributeError"}

NoEntry == "-"

(* ------------------------- pure functions ----------------------------- *)
RECURSIVE find_from(_, _)
\* The loop of _find_next_level from index i (1-based) on.
find_from(v, i) ==
    IF i > Len(step_values) THEN i - 1
    ELSE IF v < step_values[i] THEN i - 1
    ELSE find_from(v, i + 1)

RECURSIVE find_from_le(_, _)
\* The loop with the comparison value <= step_value instead of value < step_value.
find_from_le(v, i) ==
    IF i > Len(step_values) THEN i - 1
    ELSE IF v <= step_values[i] THEN i - 1
    ELSE find_from_le(v, i + 1)

\* _find_next_level with <= in place of <.
find_next_level_le(v) == find_from_le(v, 1)

\* _find_next_level with loop_level started at 1 instead of 0.
find_next_level_from_one(v) == find_from(v, 1) + 1

\* Entry._find_next_level: number of leading thresholds that are <= value.
find_next_level(v) == find_from(v, 1)

\* The outcome of Entry.handle_condition for condition k at step level
\* `level` and sample v: the new step_level, whether an event is returned,
\* and the exception raised ("none" when it returns).
Outcome(level, ev, exc) == [step_level |-> level, event |-> ev, raised |-> exc]

\* Lines 218-245: the increasing step branch.
handle_increasing_step(level, v) ==
    IF level + 1 > Len(step_values)
    THEN \* step_values[step_level] with step_level = len(step_values)
         Outcome(level, FALSE, "IndexError")
    ELSE LET next_step_limiar == step_values[level + 1]
             up     == v >= next_step_limiar /\ (level + 1) <= max_level
             level1 == IF up THEN find_next_level(v) ELSE level
             down   == /\ v < next_step_limiar
                       /\ level1 # min_level
                       /\ v < step_values[level1]  \* step_values[step_level - 1]
             level2 == IF down THEN find_next_level(v) ELSE level1
         IN  Outcome(level2, up, "none")

\* handle_condition with the range test made inclusive (<=, >=).
handle_condition_inclusive(k, level, v) ==
    IF k = OutOfRange /\ (v <= alarm_min \/ v >= alarm_max)
    THEN Outcome(level, TRUE, "none")
    ELSE IF k = SuperiorThan /\ v > alarm_max
    THEN Outcome(level, FALSE, "AttributeError")
    ELSE IF k = InferiorThan /\ v < alarm_min
    THEN Outcome(level, TRUE, "none")
    ELSE IF k = IncreasingStep
    THEN handle_increasing_step(level, v)
    ELSE Outcome(level, FALSE, "none")

handle_condition(k, level, v) ==
    IF k = OutOfRange /\ (v < alarm_min \/ v > alarm_max)
    THEN Outcome(level, TRUE, "none")
    ELSE IF k = SuperiorThan /\ v > alarm_max
    THEN \* the message is formatted from self.alarm_min
         IF HasAlarmMin(k) THEN Outcome(level, TRUE, "none")
                           ELSE Outcome(level, FALSE, "AttributeError")
    ELSE IF k = InferiorThan /\ v < alarm_min
    THEN Outcome(level, TRUE, "none")
    ELSE IF k = IncreasingStep
    THEN handle_increasing_step(level, v)
    ELSE Outcome(level, FALSE, "none")

\* The debounce test with <= in place of <.
timeout_active_le(timedelta) == timedelta <= email_timeout

\* Line 289: the debounce test on timedelta = timestamp - last_event_time.
timeout_active(timedelta) == timedelta < email_timeout

\* A put that makes room by discarding the oldest event when the queue is full.
queue_put_overwrite(q, item) ==
    IF Len(q) < QueueMax THEN [queue |-> Append(q, item), full |-> FALSE]
                         ELSE [queue |-> Append(Tail(q), item), full |-> FALSE]

\* multiprocessing.Queue.put(event, block=False) on queue q: the queue
\* after the call and whether queue.Full was raised.
queue_put(q, item) ==
    IF Len(q) < QueueMax THEN [queue |-> Append(q, item), full |-> FALSE]
                         ELSE [queue |-> q, full |-> TRUE]

\* The _EmailEvent built at lines 249-260.
EmailEvent(e, v) == [pvname |-> e, value_measured |-> v]

(* --------------------------- construction ----------------------------- *)
\* last_event_time started at the creation time itself.
initial_last_event_time_now(t) == t

\* Line 88: last_event_time of an entry created at time t.
initial_last_event_time(t) == t - email_timeout

\* `raise _EntryException(f"...")` during __init__: the message is formatted
\* first, and every message reads self._pv (lines 101 via __str__ line 186,
\* 130, 179), which is assigned only at lines 104-109.
raise_EntryException(pv_assigned) ==
    IF pv_assigned THEN "EntryException" ELSE "AttributeError"

\* What __init__ leaves behind: the exception raised ("none" when the entry
\* is created), the attributes set by the _init_* method, the kind of _pv
\* and whether check_alarms was registered as a callback.
Built(exc, lvl, dummy) ==
    [raised |-> exc,
     min_level |-> lvl[1], max_level |-> lvl[2], step_level |-> 0,
     pv |-> IF exc # "none" THEN NoPV ELSE IF dummy THEN DummyPV ELSE Disconnected,
     callback |-> exc = "none" /\ ~dummy]

NoLevels == <<-1, -1>>

\* Lines 124-131; vals is alarm_values.split(":") with every part a number.
init_out_of_range(vals, dummy) ==
    IF Len(vals) # 2 THEN Built("ValueError", NoLevels, dummy)  \* unpacking
    ELSE IF vals[1] >= vals[2]
    THEN Built(raise_EntryException(FALSE), NoLevels, dummy)
    ELSE Built("none", NoLevels, dummy)

\* Lines 133-137: float(self.alarm_values).
init_threshold(vals, dummy) ==
    IF Len(vals) # 1 THEN Built("ValueError", NoLevels, dummy)
    ELSE Built("none", NoLevels, dummy)

\* Lines 170-183.
init_increasing_step(vals, dummy) ==
    IF \E i \in 1 .. (Len(vals) - 1) : vals[i] >= vals[i + 1]
    THEN Built(raise_EntryException(FALSE), NoLevels, dummy)
    ELSE Built("none", <<0, Len(vals)>>, dummy)

\* Entry.__init__ lines 90-109 for the (lowered, stripped) condition name.
entry_init(name, vals, dummy) ==
    IF name = OutOfRange THEN init_out_of_range(vals, dummy)
    ELSE IF name = SuperiorThan THEN init_threshold(vals, dummy)
    ELSE IF name = InferiorThan THEN init_threshold(vals, dummy)
    ELSE IF name = IncreasingStep THEN init_increasing_step(vals, dummy)
    ELSE Built(raise_EntryException(FALSE), NoLevels, dummy)

\* Condition names a configuration row may carry.
DecreasingStep == "decreasingstep"
ConditionNames == Condition \cup {DecreasingStep, "unknown"}

\* alarm_values of a configuration row: one to three numbers.
AlarmValues ==
    UNION {[1 .. n -> 1 .. 3] : n \in 1 .. 3}

NoConstruction == [condition |-> "none"]

(* ------------------------------ Init ---------------------------------- *)
\* The configurations explored by Spec: one entry, of any condition (the
\* second row of the configuration was not constructed).
Configurations ==
    {c \in [Entries -> Condition \cup {NotCreated}] :
        c["pv1"] \in Condition /\ c["pv2"] = NotCreated}

\* The configuration explored by SpecPair: an increasing step entry next to
\* an out of range entry, sharing the group and the queue.
PairConfigurations ==
    {c \in [Entries -> Condition \cup {NotCreated}] :
        c["pv1"] = IncreasingStep /\ c["pv2"] = OutOfRange}

\* State after the entries of configuration c were constructed at time 0
\* with _pv as in p: Entry.__init__ lines 71-109.
Constructed(c, p) ==
    /\ now = 0
    /\ enabled = TRUE
    /\ condition = c
    /\ last_event_time = [e \in Entries |-> initial_last_event_time(0)]
    /\ step_level = [e \in Entries |-> 0]
    /\ lock = [e \in Entries |-> NoThread]
    /\ sms_queue = <<>>
    /\ pc = [t \in Threads |-> "idle"]
    /\ self = [t \in Threads |-> NoEntry]
    /\ value = [t \in Threads |-> 0]
    /\ timestamp = [t \in Threads |-> 0]
    /\ pv = p
    /\ construction = NoConstruction

\* The entry is a real one (its PV not yet connected) or a dummy.
Init ==
    \E c \in Configurations, p \in {Disconnected, DummyPV} :
        Constructed(c, [e \in Entries |-> IF c[e] = NotCreated THEN NoPV ELSE p])

\* Two real entries whose PVs are connected.
InitPair ==
    \E c \in PairConfigurations : Constructed(c, [e \in Entries |-> Connected])

\* Nothing is constructed yet: the loader is about to read the rows.
InitLoad ==
    Constructed([e \in Entries |-> NotCreated], [e \in Entries |-> NoPV])

(* ----------------------------- actions -------------------------------- *)
\* A call ends: the locals die, pc records how it ended.
Return(t, how) ==
    /\ pc' = [pc EXCEPT ![t] = how]
    /\ self' = [self EXCEPT ![t] = NoEntry]
    /\ value' = [value EXCEPT ![t] = 0]
    /\ timestamp' = [timestamp EXCEPT ![t] = 0]

\* The clock advances.
Tick ==
    /\ now < MaxTime
    /\ now' = now + 1
    /\ UNCHANGED <<enabled, condition, last_event_time, step_level, lock,
                   sms_queue, pc, self, value, timestamp, pv, construction>>

\* Group.enabled setter.
SetEnabled(b) ==
    /\ enabled # b
    /\ enabled' = b
    /\ UNCHANGED <<now, condition, last_event_time, step_level, lock,
                   sms_queue, pc, self, value, timestamp, pv, construction>>

\* The telemetry source connects or disconnects the PV of entry e.
SetConnected(e, b) ==
    /\ pv[e] \in RealPV
    /\ pv[e] # (IF b THEN Connected ELSE Disconnected)
    /\ pv' = [pv EXCEPT ![e] = IF b THEN Connected ELSE Disconnected]
    /\ UNCHANGED <<now, enabled, condition, last_event_time, step_level, lock,
                   sms_queue, pc, self, value, timestamp, construction>>

\* The dispatcher takes the oldest event from the queue.
Dispatch ==
    /\ sms_queue # <<>>
    /\ sms_queue' = Tail(sms_queue)
    /\ UNCHANGED <<now, enabled, condition, last_event_time, step_level, lock,
                   pc, self, value, timestamp, pv, construction>>

\* check_alarms entered without reading the group's flag.
check_alarms_ungated(t, e, v) ==
    /\ pc' = [pc EXCEPT ![t] = "connected"]
    /\ self' = [self EXCEPT ![t] = e]
    /\ value' = [value EXCEPT ![t] = v]
    /\ UNCHANGED timestamp
    /\ UNCHANGED <<now, enabled, condition, last_event_time, step_level, lock,
                   sms_queue, pv, construction>>

\* Thread t enters check_alarms(value=v) of entry e: lines 272-280, the
\* group gate.
check_alarms(t, e, v) ==
    /\ IF ~enabled
       THEN Return(t, "skipped")
       ELSE /\ pc' = [pc EXCEPT ![t] = "connected"]
            /\ self' = [self EXCEPT ![t] = e]
            /\ value' = [value EXCEPT ![t] = v]
            /\ UNCHANGED timestamp
    /\ UNCHANGED <<now, enabled, condition, last_event_time, step_level, lock,
                   sms_queue, pv, construction>>

\* The telemetry source pushes sample v to the callback of entry e.
CheckGroup(t, e, v) ==
    /\ pc[t] \in Returned
    /\ condition[e] \in Condition
    /\ pv[e] \in RealPV
    /\ check_alarms(t, e, v)

\* Entry.trigger, lines 268-270: self._pv.value is read (v, the current
\* value of an epics.PV; a DummyPV has no such attribute) and handed to
\* check_alarms.
Trigger(t, e, v) ==
    /\ pc[t] \in Returned
    /\ condition[e] \in Condition
    /\ IF pv[e] = DummyPV
       THEN /\ Return(t, "AttributeError")
            /\ UNCHANGED <<now, enabled, condition, last_event_time,
                           step_level, lock, sms_queue, pv, construction>>
       ELSE check_alarms(t, e, v)

\* The connectivity check with the disconnected case not returning.
CheckConnected_ignored(t) ==
    /\ pc[t] = "connected"
    /\ IF pv[self[t]] = DummyPV
       THEN Return(t, "AttributeError")
       ELSE /\ pc' = [pc EXCEPT ![t] = "time"]
            /\ UNCHANGED <<self, value, timestamp>>
    /\ UNCHANGED <<now, enabled, condition, last_event_time, step_level, lock,
                   sms_queue, pv, construction>>

\* Lines 282-285: self._pv.connected (an attribute a DummyPV lacks).
CheckConnected(t) ==
    /\ pc[t] = "connected"
    /\ IF pv[self[t]] = DummyPV
       THEN Return(t, "AttributeError")
       ELSE IF pv[self[t]] # Connected
       THEN Return(t, "skipped")
       ELSE /\ pc' = [pc EXCEPT ![t] = "time"]
            /\ UNCHANGED <<self, value, timestamp>>
    /\ UNCHANGED <<now, enabled, condition, last_event_time, step_level, lock,
                   sms_queue, pv, construction>>

\* Line 287: timestamp = time.time().
ReadTime(t) ==
    /\ pc[t] = "time"
    /\ pc' = [pc EXCEPT ![t] = "debounce"]
    /\ timestamp' = [timestamp EXCEPT ![t] = now]
    /\ UNCHANGED <<now, enabled, condition, last_event_time, step_level, lock,
                   sms_queue, self, value, pv, construction>>

\* Lines 288-293: last_event_time is read and tested outside the lock.
CheckDebounce(t) ==
    /\ pc[t] = "debounce"
    /\ LET timedelta == timestamp[t] - last_event_time[self[t]]
       IN  IF timeout_active(timedelta)
           THEN Return(t, "skipped")
           ELSE /\ pc' = [pc EXCEPT ![t] = "lock"]
                /\ UNCHANGED <<self, value, timestamp>>
    /\ UNCHANGED <<now, enabled, condition, last_event_time, step_level, lock,
                   sms_queue, pv, construction>>

\* handle_condition entered without waiting for the entry's lock.
HandleCondition_unlocked(t) ==
    /\ pc[t] = "lock"
    /\ LET e == self[t]
           r == handle_condition(condition[e], step_level[e], value[t])
       IN  /\ step_level' = [step_level EXCEPT ![e] = r.step_level]
           /\ IF r.raised # "none"
              THEN Return(t, r.raised) /\ UNCHANGED lock
              ELSE IF ~r.event
              THEN Return(t, "no_event") /\ UNCHANGED lock
              ELSE /\ pc' = [pc EXCEPT ![t] = "put"]
                   /\ lock' = [lock EXCEPT ![e] = t]
                   /\ UNCHANGED <<self, value, timestamp>>
    /\ UNCHANGED <<now, enabled, condition, last_event_time, sms_queue, pv,
                   construction>>

\* Lines 296-299: the lock is taken and handle_condition runs. The lock is
\* released on the way out when no event is returned or when it raises.
HandleCondition(t) ==
    /\ pc[t] = "lock"
    /\ lock[self[t]] = NoThread
    /\ LET e == self[t]
           r == handle_condition(condition[e], step_level[e], value[t])
       IN  /\ step_level' = [step_level EXCEPT ![e] = r.step_level]
           /\ IF r.raised # "none"
              THEN Return(t, r.raised) /\ UNCHANGED lock
              ELSE IF ~r.event
              THEN Return(t, "no_event") /\ UNCHANGED lock
              ELSE /\ pc' = [pc EXCEPT ![t] = "put"]
                   /\ lock' = [lock EXCEPT ![e] = t]
                   /\ UNCHANGED <<self, value, timestamp>>
    /\ UNCHANGED <<now, enabled, condition, last_event_time, sms_queue, pv,
                   construction>>

\* The enqueue with the lock left held when the queue is full.
Put_keeps_lock(t) ==
    /\ pc[t] = "put"
    /\ LET e == self[t]
           r == queue_put(sms_queue, EmailEvent(e, value[t]))
       IN  /\ sms_queue' = r.queue
           /\ IF ~r.full
              THEN /\ last_event_time' = [last_event_time EXCEPT ![e] = timestamp[t]]
                   /\ lock' = [lock EXCEPT ![e] = NoThread]
                   /\ Return(t, "enqueued")
              ELSE /\ UNCHANGED <<last_event_time, lock>>
                   /\ Return(t, "dropped")
    /\ UNCHANGED <<now, enabled, condition, step_level, pv, construction>>

\* The enqueue with step_level taken back to 0 when the queue is full.
Put_rollback(t) ==
    /\ pc[t] = "put"
    /\ LET e == self[t]
           r == queue_put(sms_queue, EmailEvent(e, value[t]))
       IN  /\ sms_queue' = r.queue
           /\ IF ~r.full
              THEN /\ last_event_time' = [last_event_time EXCEPT ![e] = timestamp[t]]
                   /\ UNCHANGED step_level
                   /\ Return(t, "enqueued")
              ELSE /\ UNCHANGED last_event_time
                   /\ step_level' = [step_level EXCEPT ![e] = 0]
                   /\ Return(t, "dropped")
           /\ lock' = [lock EXCEPT ![e] = NoThread]
    /\ UNCHANGED <<now, enabled, condition, pv, construction>>

\* Lines 300-307: put(block=False), last_event_time, release; queue.Full is
\* caught and logged.
Put(t) ==
    /\ pc[t] = "put"
    /\ LET e == self[t]
           r == queue_put(sms_queue, EmailEvent(e, value[t]))
       IN  /\ sms_queue' = r.queue
           /\ IF ~r.full
              THEN /\ last_event_time' = [last_event_time EXCEPT ![e] = timestamp[t]]
                   /\ Return(t, "enqueued")
              ELSE /\ UNCHANGED last_event_time
                   /\ Return(t, "dropped")
           /\ lock' = [lock EXCEPT ![e] = NoThread]
    /\ UNCHANGED <<now, enabled, condition, step_level, pv, construction>>

\* The loader calls Entry(condition=name, alarm_values=vals, dummy=dummy).
Construct(name, vals, dummy) ==
    /\ construction' = [condition |-> name, alarm_values |-> vals,
                        dummy |-> dummy, created |-> now,
                        last_event_time |-> initial_last_event_time(now),
                        entry |-> entry_init(name, vals, dummy)]
    /\ UNCHANGED <<now, enabled, condition, last_event_time, step_level, lock,
                   sms_queue, pc, self, value, timestamp, pv>>

Next ==
    \/ Tick
    \/ \E b \in BOOLEAN : SetEnabled(b)
    \/ \E e \in Entries, b \in BOOLEAN : SetConnected(e, b)
    \/ Dispatch
    \/ \E t \in Threads, e \in Entries, v \in Samples : CheckGroup(t, e, v)
    \/ \E t \in Threads, e \in Entries, v \in Samples : Trigger(t, e, v)
    \/ \E t \in Threads : CheckConnected(t)
    \/ \E t \in Threads : ReadTime(t)
    \/ \E t \in Threads : CheckDebounce(t)
    \/ \E t \in Threads : HandleCondition(t)
    \/ \E t \in Threads : Put(t)

Spec == Init /\ [][Next]_vars

\* Two entries, group enabled and PVs connected throughout: thread t2
\* delivers the samples of pv1, thread t1 evaluates either entry.
NextPair ==
    \/ Tick
    \/ Dispatch
    \/ \E e \in Entries, v \in Samples : CheckGroup("t1", e, v)
    \/ \E v \in Samples : CheckGroup("t2", "pv1", v)
    \/ \E t \in Threads : CheckConnected(t)
    \/ \E t \in Threads : ReadTime(t)
    \/ \E t \in Threads : CheckDebounce(t)
    \/ \E t \in Threads : HandleCondition(t)
    \/ \E t \in Threads : Put(t)

SpecPair == InitPair /\ [][NextPair]_vars

\* One call at a time: a single thread delivers every sample.
NextSeq ==
    \/ Tick
    \/ \E b \in BOOLEAN : SetEnabled(b)
    \/ \E e \in Entries, b \in BOOLEAN : SetConnected(e, b)
    \/ Dispatch
    \/ \E e \in Entries, v \in Samples : CheckGroup("t1", e, v)
    \/ \E e \in Entries, v \in Samples : Trigger("t1", e, v)
    \/ CheckConnected("t1")
    \/ ReadTime("t1")
    \/ CheckDebounce("t1")
    \/ HandleCondition("t1")
    \/ Put("t1")

SpecSeq == Init /\ [][NextSeq]_vars

\* The loader constructing entries from configuration rows.
NextLoad ==
    \/ Tick
    \/ \E name \in ConditionNames, vals \in AlarmValues, dummy \in BOOLEAN :
          Construct(name, vals, dummy)

SpecLoad == InitLoad /\ [][NextLoad]_vars

\* A step of the check_alarms call thread t is in: lines 282-307.
ThreadStep(t) ==
    \/ CheckConnected(t)
    \/ ReadTime(t)
    \/ CheckDebounce(t)
    \/ HandleCondition(t)
    \/ Put(t)

\* One increasing step entry, its PV connected, the group enabled.
InitLive ==
    Constructed([e \in Entries |->
                    IF e = "pv1" THEN IncreasingStep ELSE NotCreated],
                [e \in Entries |-> IF e = "pv1" THEN Connected ELSE NoPV])

\* Two threads deliver the samples of the entry.
NextLive ==
    \/ Tick
    \/ Dispatch
    \/ \E t \in Threads, v \in Samples : CheckGroup(t, "pv1", v)
    \/ \E t \in Threads : CheckConnected(t)
    \/ \E t \in Threads : ReadTime(t)
    \/ \E t \in Threads : CheckDebounce(t)
    \/ \E t \in Threads : HandleCondition(t)
    \/ \E t \in Threads : Put(t)

\* Fair scheduling: a thread that can run does run; none of lines 272-307
\* blocks (put is called with block=False), and a thread waiting for the
\* entry's lock gets it if it is free again and again.
FairScheduling ==
    \A t \in Threads :
        /\ WF_vars(CheckConnected(t))
        /\ WF_vars(ReadTime(t))
        /\ WF_vars(CheckDebounce(t))
        /\ SF_vars(HandleCondition(t))
        /\ WF_vars(Put(t))

SpecLive == InitLive /\ [][NextLive]_vars /\ FairScheduling

(* ------------------------------ claims -------------------------------- *)
Abs(x) == IF x < 0 THEN 0 - x ELSE x

\* Thread t takes a step of its check_alarms call.
Steps(t) == pc'[t] # pc[t]

\* Thread t is evaluating an entry of condition k.
Evaluating(t, k) == self[t] \in Entries /\ condition[self[t]] = k

\* The smallest (0-based) index i with s < thresholds[i], max_level if none.
LevelOf(s) ==
    IF \E i \in 1 .. Len(step_values) : s < step_values[i]
    THEN (CHOOSE i \in 1 .. Len(step_values) :
             /\ s < step_values[i]
             /\ \A j \in 1 .. (i - 1) : ~(s < step_values[j])) - 1
    ELSE max_level

\* C1: the debounce is a hard rate limit under concurrency: whenever an
\* evaluation enqueues an Event, its timestamp differs by at least
\* email_timeout from the timestamp of the Event the entry enqueued before
\* it (last_event_time).
C1_HardRateLimit ==
    [][\A t \in Threads :
          (pc[t] = "put" /\ pc'[t] = "enqueued")
          => Abs(timestamp[t] - last_event_time[self[t]]) >= email_timeout]_vars

\* C2: sequential evaluation of an out of range entry: a sample taken less
\* than email_timeout after the last enqueued Event is skipped at the
\* debounce guard and enqueues nothing; a violating sample taken at least
\* email_timeout after it passes the guard, yields an event, and with room
\* in the queue enqueues exactly that one Event and restarts the window.
C2_SequentialDebounce ==
    [][\A t \in Threads :
          (Evaluating(t, OutOfRange) /\ Steps(t)) =>
             LET e == self[t]
                 elapsed == timestamp[t] - last_event_time[e]
                 violating == value[t] < alarm_min \/ value[t] > alarm_max
             IN  /\ (pc[t] = "debounce" /\ elapsed < email_timeout)
                    => /\ pc'[t] = "skipped"
                       /\ UNCHANGED <<sms_queue, last_event_time>>
                 /\ (pc[t] = "debounce" /\ elapsed >= email_timeout)
                    => pc'[t] = "lock"
                 /\ (pc[t] = "lock" /\ violating)
                    => pc'[t] = "put" /\ elapsed >= email_timeout
                 /\ (pc[t] = "put" /\ Len(sms_queue) < QueueMax)
                    => /\ elapsed >= email_timeout
                       /\ pc'[t] = "enqueued"
                       /\ sms_queue' = Append(sms_queue, EmailEvent(e, value[t]))
                       /\ last_event_time'[e] = timestamp[t]]_vars

\* C2 witness: an out of range entry that already enqueued an Event at
\* last_event_time >= 0 has a later violating sample past the debounce
\* guard and about to be enqueued.
C2_Witness ==
    \E t \in Threads :
        /\ Evaluating(t, OutOfRange)
        /\ pc[t] = "put"
        /\ last_event_time[self[t]] >= 0
        /\ timestamp[t] - last_event_time[self[t]] >= email_timeout
        /\ Len(sms_queue) < QueueMax

\* C3: an evaluation whose Event was dropped because the queue was full
\* still sets last_event_time to its timestamp.
C3_DroppedEventStartsWindow ==
    [][\A t \in Threads :
          (pc[t] = "put" /\ pc'[t] = "dropped")
          => last_event_time'[self[t]] = timestamp[t]]_vars

\* C4: the put never waits (the step is enabled whatever the queue holds),
\* and on a full queue the call returns normally with the Event dropped, the
\* queue contents as they were and the entry lock released.
C4_QueueFullAbsorbed ==
    /\ [](\A t \in Threads : pc[t] = "put" => ENABLED Put(t))
    /\ [][\A t \in Threads :
            (pc[t] = "put" /\ Steps(t) /\ Len(sms_queue) >= QueueMax)
            => /\ pc'[t] = "dropped"
               /\ sms_queue' = sms_queue
               /\ lock'[self[t]] = NoThread]_vars

\* C4 witness: a call has ended with its Event dropped on a full queue.
C4_Witness ==
    \E t \in Threads : pc[t] = "dropped" /\ Len(sms_queue) = QueueMax

\* C5: no check_alarms call on an entry bound to a real PV ends with an
\* exception.
C5_NeverThrows ==
    (\A e \in Entries : pv[e] # DummyPV)
    => \A t \in Threads : pc[t] \notin {"IndexError", "AttributeError"}

\* C6: at step_level = max_level, a sample at or above the highest
\* threshold ends the evaluation normally with no Event and step_level
\* unchanged.
C6_StepCeiling ==
    [][\A t \in Threads :
          (/\ Evaluating(t, IncreasingStep)
           /\ pc[t] = "lock" /\ Steps(t)
           /\ step_level[self[t]] = max_level
           /\ value[t] >= step_values[max_level])
          => /\ pc'[t] = "no_event"
             /\ step_level'[self[t]] = max_level
             /\ sms_queue' = sms_queue]_vars

\* C7: step ascent: below the ceiling, a sample at or above the next
\* threshold moves step_level up to LevelOf(sample) and yields an event,
\* which with room in the queue is enqueued as exactly one Event.
C7_StepAscent ==
    [][\A t \in Threads :
          (Evaluating(t, IncreasingStep) /\ Steps(t)) =>
             LET e == self[t]
             IN  /\ (/\ pc[t] = "lock"
                     /\ step_level[e] < max_level
                     /\ value[t] >= step_values[step_level[e] + 1])
                    => /\ step_level'[e] = LevelOf(value[t])
                       /\ step_level'[e] > step_level[e]
                       /\ pc'[t] = "put"
                 /\ (pc[t] = "put" /\ Len(sms_queue) < QueueMax)
                    => /\ sms_queue' = Append(sms_queue, EmailEvent(e, value[t]))
                       /\ pc'[t] = "enqueued"
                       /\ step_level'[e] = step_level[e]]_vars

\* C7 witness: at time 0 an increasing step entry has reached the top level
\* with a sample above every threshold and its Event is in the queue.
C7_Witness ==
    \E t \in Threads, e \in Entries :
        /\ condition[e] = IncreasingStep
        /\ pc[t] = "enqueued"
        /\ now = 0
        /\ step_level[e] = max_level
        /\ sms_queue = <<EmailEvent(e, 3)>>

\* C8: step descent: at any level L in 1..max_level a sample below
\* thresholds[L-1] sets step_level to LevelOf(sample), yields no Event and
\* leaves last_event_time and the queue alone.
C8_StepDescent ==
    [][\A t \in Threads :
          (/\ Evaluating(t, IncreasingStep)
           /\ pc[t] = "lock" /\ Steps(t)
           /\ step_level[self[t]] \in 1 .. max_level
           /\ value[t] < step_values[step_level[self[t]]])
          => /\ step_level'[self[t]] = LevelOf(value[t])
             /\ pc'[t] = "no_event"
             /\ UNCHANGED <<sms_queue, last_event_time>>]_vars

\* C9: the step level of an increasing step entry stays within
\* 0 .. len(step_values).
C9_StepLevelInRange ==
    \A e \in Entries :
        condition[e] = IncreasingStep
        => step_level[e] \in 0 .. Len(step_values)

\* C9 witness: an increasing step entry at the top level.
C9_Witness ==
    \E e \in Entries :
        condition[e] = IncreasingStep /\ step_level[e] = Len(step_values)

\* C10: a superior than entry whose evaluation passed the guards yields an
\* event exactly when sample > alarm_max; otherwise it returns with nothing
\* enqueued and no state changed.
C10_SuperiorThan ==
    [][\A t \in Threads :
          (Evaluating(t, SuperiorThan) /\ pc[t] = "lock" /\ Steps(t)) =>
             IF value[t] > alarm_max
             THEN pc'[t] = "put"
             ELSE /\ pc'[t] = "no_event"
                  /\ UNCHANGED <<sms_queue, last_event_time, step_level>>]_vars

\* C11: an out of range entry whose evaluation passed the guards yields an
\* event exactly when sample < alarm_min or sample > alarm_max, and with
\* room in the queue that event is enqueued once; a sample inside the closed
\* interval [alarm_min, alarm_max] ends the call with nothing enqueued and
\* last_event_time unchanged.
C11_OutOfRange ==
    [][\A t \in Threads :
          (Evaluating(t, OutOfRange) /\ Steps(t)) =>
             LET e == self[t]
                 inside == alarm_min <= value[t] /\ value[t] <= alarm_max
             IN  /\ (pc[t] = "lock" /\ ~inside) => pc'[t] = "put"
                 /\ (pc[t] = "lock" /\ inside)
                    => /\ pc'[t] = "no_event"
                       /\ UNCHANGED <<sms_queue, last_event_time, step_level>>
                 /\ (pc[t] = "put")
                    => /\ ~inside
                       /\ Len(sms_queue) < QueueMax
                          => /\ pc'[t] = "enqueued"
                             /\ sms_queue' = Append(sms_queue, EmailEvent(e, value[t]))]_vars

\* C11 witness: a sample on the upper bound ended with no event while the
\* other thread's sample above it was enqueued.
C11_Witness ==
    \E t, u \in Threads, e \in Entries :
        /\ condition[e] = OutOfRange
        /\ pc[t] = "no_event"
        /\ pc[u] = "enqueued"
        /\ sms_queue = <<EmailEvent(e, 3)>>

\* Every entry is bound to an epics.PV.
AllReal == \A e \in Entries : pv[e] # DummyPV

\* C12: a guard-skipped evaluation is a no-op: with the group disabled a
\* call can only end as skipped; a call that finds the PV disconnected, or
\* whose timestamp is less than email_timeout after last_event_time, ends
\* as skipped; and the skipping step leaves the queue, last_event_time and
\* step_level as they were, whatever the sample.
C12_SkipIsNoOp ==
    [][\A t \in Threads :
          LET frame == UNCHANGED <<sms_queue, last_event_time, step_level>>
          IN  /\ (pc[t] \in Returned /\ ~enabled /\ AllReal)
                 => /\ pc'[t] \in {pc[t], "skipped"}
                    /\ pc'[t] # pc[t] => frame
              /\ (pc[t] = "connected" /\ Steps(t) /\ pv[self[t]] = Disconnected)
                 => pc'[t] = "skipped" /\ frame
              /\ (/\ pc[t] = "debounce" /\ Steps(t)
                  /\ timestamp[t] - last_event_time[self[t]] < email_timeout)
                 => pc'[t] = "skipped" /\ frame]_vars

\* C12 witness: an increasing step entry that has raised its level and
\* enqueued an Event, and a call on it skipped while the group is disabled.
C12_Witness ==
    \E t \in Threads, e \in Entries :
        /\ condition[e] = IncreasingStep
        /\ step_level[e] > 0
        /\ last_event_time[e] >= 0
        /\ ~enabled
        /\ pc[t] = "skipped"

\* The threads inside the critical section of entry e.
InCritical(e) == {t \in Threads : pc[t] = "put" /\ self[t] = e}

\* C13: mutual exclusion per Entry: at most one thread is inside the
\* read-modify-write of an Entry and it is the holder of that Entry's lock;
\* a thread waiting to enter can do so whenever no thread is inside the
\* same Entry, whatever the threads on other Entries are doing.
C13_MutualExclusion ==
    /\ \A e \in Entries :
          /\ Cardinality(InCritical(e)) <= 1
          /\ lock[e] # NoThread <=> InCritical(e) = {lock[e]}
    /\ \A t \in Threads :
          (pc[t] = "lock" /\ InCritical(self[t]) = {})
             => ENABLED HandleCondition(t)

\* C13 witness: two threads inside the critical sections of two different
\* entries at the same time.
C13_Witness ==
    \E t, u \in Threads :
        /\ pc[t] = "put" /\ pc[u] = "put"
        /\ self[t] # self[u]
        /\ lock[self[t]] = t /\ lock[self[u]] = u

ConstructionOf(k) ==
    construction # NoConstruction /\ construction.condition = k

\* C15: constructing an out of range entry whose 'min:max' has min >= max
\* (min = max included) fails with EntryException, for every such pair.
C15_InvertedRangeRejected ==
    (/\ ConstructionOf(OutOfRange)
     /\ Len(construction.alarm_values) = 2
     /\ construction.alarm_values[1] >= construction.alarm_values[2])
       => construction.entry.raised = "EntryException"

\* C16: constructing an increasing step entry whose thresholds are not
\* strictly increasing fails with EntryException; a single threshold is
\* accepted with min_level 0, max_level 1 and step_level 0.
C16_UnsortedStepsRejected ==
    ConstructionOf(IncreasingStep) =>
       LET vals == construction.alarm_values
           e    == construction.entry
       IN  /\ (\E i \in 1 .. (Len(vals) - 1) : vals[i] >= vals[i + 1])
              => e.raised = "EntryException"
           /\ Len(vals) = 1
              => /\ e.raised = "none"
                 /\ e.min_level = 0 /\ e.max_level = 1 /\ e.step_level = 0

\* C17: constructing an entry whose condition is none of the four supported
\* ones (decreasing step included) fails with EntryException, and no failed
\* construction leaves a PV or a registered callback behind.
C17_UnsupportedConditionRejected ==
    construction # NoConstruction =>
       /\ construction.condition \notin Condition
          => construction.entry.raised = "EntryException"
       /\ construction.entry.raised # "none"
          => construction.entry.pv = NoPV /\ ~construction.entry.callback

C19_TriggerIsCheckAlarms ==
    [][\A t \in Threads, e \in Entries, v \in Samples :
          Trigger(t, e, v)
             => \/ check_alarms(t, e, v)
                \/ enabled /\ pv[e] = DummyPV /\ pc'[t] = "AttributeError"]_vars

\* C20: increasing step level tracking: every evaluation that runs the
\* condition logic ends normally with step_level equal to the number of
\* thresholds <= the sample (what _find_next_level returns for it), and it
\* yields an event if and only if step_level strictly increased in it.
C20_StepLevelTracksSample ==
    [][\A t \in Threads :
          (Evaluating(t, IncreasingStep) /\ pc[t] = "lock" /\ Steps(t))
             => LET e == self[t]
                IN  /\ pc'[t] \in {"put", "no_event"}
                    /\ step_level'[e] = find_next_level(value[t])
                    /\ step_level'[e] = LevelOf(value[t])
                    /\ pc'[t] = "put" <=> step_level'[e] > step_level[e]]_vars

\* C21: a dropped escalation is not notified again: an increasing step
\* ascent reaches the enqueue with step_level already raised to the
\* sample's level, a full queue drops the Event and leaves step_level at
\* that raised value, and an evaluation of a sample of the level the entry
\* is at yields no event and enqueues nothing, room in the queue or not.
C21_DroppedEscalationNotRenotified ==
    [][\A t \in Threads :
          (Evaluating(t, IncreasingStep) /\ Steps(t)) =>
             LET e == self[t]
             IN  /\ (pc[t] = "put")
                    => /\ step_level[e] = LevelOf(value[t])
                       /\ step_level[e] > 0
                 /\ (pc[t] = "put" /\ Len(sms_queue) >= QueueMax)
                    => /\ pc'[t] = "dropped"
                       /\ step_level'[e] = step_level[e]
                       /\ sms_queue' = sms_queue
                 /\ (pc[t] = "lock" /\ LevelOf(value[t]) = step_level[e])
                    => /\ pc'[t] # "put"
                       /\ step_level'[e] = step_level[e]
                       /\ sms_queue' = sms_queue]_vars

\* C21 witness: an ascent's Event was dropped, the queue has room again,
\* and a later evaluation at the raised level has ended with no event.
C21_Witness ==
    \E t, u \in Threads, e \in Entries :
        /\ condition[e] = IncreasingStep
        /\ pc[t] = "dropped"
        /\ pc[u] = "no_event"
        /\ step_level[e] > 0
        /\ Len(sms_queue) < QueueMax

\* The ways a call leaves the locked section: into the enqueue, with no
\* event, or by an exception of handle_condition.
Entered == {"put", "no_event", "IndexError", "AttributeError"}

====
